---- MODULE Spec2Model ----
(***************************************************************************)
(* Network congestion simulation of projects/projects/analyzer/script.js.  *)
(* The state is the script's global variables together with the browser's  *)
(* table of active interval timers; one action per UI handler and one for  *)
(* the firing of the simulation's interval timer.                          *)
(***************************************************************************)
EXTENDS Integers, Sequences, FiniteSets, TLC

\* ---------------------------------------------------------------- bounds
\* Largest value the packet-rate slider is moved to.
MaxRate == 2
\* Largest value the capacity slider is moved to.
MaxCapacity == 1
\* Number of timer periods observed.
MaxClock == 3
\* Number of timer periods observed in the long runs that fill the chart.
MaxLongClock == 9
\* Number of interval timers the page creates.
MaxTimers == 2

\* Largest packet rate and capacity the classifier is applied to.
MaxClassifyRate == 150
MaxClassifyCapacity == 100
\* Number of timer periods observed in the classifier runs.
MaxClassifyClock == 1
\* Slider positions of the long TCP run that grows the window, and the
\* number of timer periods observed in it.
WideRate == 100
WideCapacity == 100
MaxBackoffClock == 90
\* Largest slide number the navigation links pass to showSlide.
MaxSlide == 5
\* Number of timers (interval timers and car timeouts) the page creates in
\* the runs with the traffic animation, and timer periods observed in them.
MaxTrafficTimers == 9
MaxTrafficClock == 1
\* Largest packet rate and capacity of the fixed-configuration runs, and the
\* number of timer periods observed in them.
MaxFixedRate == 20
MaxFixedCapacity == 10
MaxFixedClock == 10
\* Largest position of a Remove button in the lists of servers and files.
MaxIndex == 3
\* Number of messages the chat server receives and of poll requests the page
\* issues.
MaxMessages == 3
MaxPolls == 3

\* ------------------------------------------------------ program constants
InitialPacketRate == 10
InitialNetworkCapacity == 15
InitialWindowSize == 1
ChartCapacity == 8
InitialSlide == 1
LowDensity == 3
HighDensity == 8
DefaultPort == 8888

Protocols == {"tcp", "udp"}
\* Texts updateNetworkVisualization() writes into the networkStatus element.
StatusTexts == {"Normal", "Warning", "Congested"}
\* The element's text before the script has written it.
MarkupStatus == "(markup)"
\* Name under which setProtocol(p) is recorded in lastOp.
SetProtocolOp(p) == IF p = "tcp" THEN "setProtocol(tcp)" ELSE "setProtocol(udp)"
Operations == {"load", "setPacketRate", "setNetworkCapacity",
               "setProtocol(tcp)", "setProtocol(udp)",
               "startSimulation", "pauseSimulation", "resetSimulation",
               "simulateNetworkTraffic",
               "showSlide", "startTraffic", "increaseTraffic", "resetTraffic",
               "stopTraffic", "generateTraffic", "removeCar",
               "addTargetServer", "removeTargetServer", "handleFileSelection",
               "removeFile", "clearSelection",
               "joinChat", "pollForMessages", "pollResponse", "serverMessage"}
RateInputs == 1..MaxRate
CapacityInputs == 1..MaxCapacity
\* Slider values when the markup does not keep the sliders above zero.
RawRateInputs == 0..MaxRate
RawCapacityInputs == 0..MaxCapacity

VARIABLES
    packetRate,            \* configured send rate
    networkCapacity,       \* link capacity
    sentPackets,           \* cumulative counters
    deliveredPackets,
    droppedPackets,
    currentProtocol,       \* "tcp" or "udp"
    isSimulationRunning,   \* lifecycle flag
    tcpWindowSize,         \* congestion window
    chartData,             \* [time, throughput, loss]: the rolling samples
    simulationInterval,    \* handle last returned by setInterval (0: none)
    activeIntervals,       \* handles of the interval timers still scheduled
    nextTimerId,           \* next handle setInterval returns
    clock,                 \* timer periods elapsed; labels the samples
    networkStatus,         \* text of the networkStatus element
    currentSlide,          \* slide shown
    trafficInterval,       \* handle of the traffic animation's timer (0: none)
    trafficTimers,         \* handles of the scheduled generateTraffic timers
    trafficDensity,        \* cars created per generateTraffic()
    activePackets,         \* counter shown in the activePackets element
    cars,                  \* car elements in the lanes, named by their timeout
    carTimeouts,           \* handles of the pending car-removal timeouts
    countedProtocols,      \* history: protocols of the ticks that produced the
                           \* packets and samples now in the statistics
    selectedFiles,         \* file transfer page: files chosen
    targetServers,         \* target servers, records [ip, port]
    startTransferBtn,      \* state of the start-transfer button
    joinPending,           \* chat: the join request is in flight
    isConnected,           \* chat: joined
    lastMessageId,         \* chat: largest message id seen by a poll
    pollInterval,          \* chat: the polling timer ("null": none)
    pollRequests,          \* chat: poll requests in flight, [no, since]
    nextPollNo,            \* chat: number of the next poll request
    serverMessages,        \* chat server: number of messages in its log
    chatMessages,          \* chat: ids of the message elements in the view
    lastOp                 \* the handler that ran last

vars == <<packetRate, networkCapacity, sentPackets, deliveredPackets,
          droppedPackets, currentProtocol, isSimulationRunning, tcpWindowSize,
          chartData, simulationInterval, activeIntervals, nextTimerId, clock,
          networkStatus, currentSlide, trafficInterval, trafficTimers,
          trafficDensity, activePackets, cars, carTimeouts, countedProtocols,
          selectedFiles, targetServers, startTransferBtn, joinPending,
          isConnected, lastMessageId, pollInterval, pollRequests, nextPollNo,
          serverMessages, chatMessages, lastOp>>

configVars == <<packetRate, networkCapacity, currentProtocol>>
statsVars == <<sentPackets, deliveredPackets, droppedPackets, tcpWindowSize,
               chartData>>
\* The statistics with their history.
runVars == <<statsVars, countedProtocols>>
timerVars == <<simulationInterval, activeIntervals, nextTimerId>>
pageVars == <<currentSlide, trafficInterval, trafficTimers, trafficDensity,
              activePackets, cars, carTimeouts>>
\* The analyzer page as a whole.
analyzerVars == <<configVars, runVars, isSimulationRunning, timerVars, clock,
                  networkStatus, pageVars>>
\* The file transfer page: its selection and its chat.
transferVars == <<selectedFiles, targetServers, startTransferBtn>>
chatVars == <<joinPending, isConnected, lastMessageId, pollInterval,
              pollRequests, nextPollNo, serverMessages, chatMessages>>
appVars == <<transferVars, chatVars>>

\* ------------------------------------------------------------- arithmetic
Min(a, b) == IF a <= b THEN a ELSE b
Max(a, b) == IF a >= b THEN a ELSE b

\* Pairs <<sendingRate, networkCapacity>> (sendingRate <= 25) for which the
\* binary64 evaluation of sendingRate * (1 - overload / sendingRate) falls
\* just below networkCapacity, so that Math.floor yields networkCapacity - 1.
\* For every other overloaded pair in that range the floor is networkCapacity.
RoundedBelow ==
    { <<5, 1>>, <<6, 1>>, <<10, 1>>, <<10, 2>>, <<11, 2>>, <<12, 2>>,
      <<12, 7>>, <<13, 1>>, <<13, 3>>, <<14, 1>>, <<14, 5>>, <<15, 1>>,
      <<15, 2>>, <<15, 3>>, <<17, 5>>, <<17, 6>>, <<17, 11>>, <<17, 12>>,
      <<18, 3>>, <<18, 7>>, <<20, 2>>, <<20, 4>>, <<22, 1>>, <<22, 4>>,
      <<22, 13>>, <<23, 1>>, <<23, 5>>, <<24, 1>>, <<24, 4>>, <<24, 7>>,
      <<24, 14>>, <<25, 2>>, <<25, 5>>, <<25, 8>>, <<25, 11>> }

\* The sending rates from 26 to 100 for which the same holds with
\* networkCapacity = 1: the floor is 0.
RoundedBelowAtOne ==
    { 26, 28, 29, 30, 31, 33, 37, 38, 44, 46, 53, 54, 59, 62, 65, 66, 68, 69,
      70, 71, 72, 74, 75, 78, 79, 80, 84, 85, 87, 88, 90, 91, 93, 94, 96, 97,
      99 }

\* A variant whose floor always falls one below the capacity.
DeliveredAlwaysBelow(sendingRate, capacity) == capacity - 1

\* const delivered = Math.floor(sendingRate * (1 - dropRate)), overload > 0
DeliveredUnderOverload(sendingRate, capacity) ==
    IF \/ <<sendingRate, capacity>> \in RoundedBelow
       \/ (capacity = 1 /\ sendingRate \in RoundedBelowAtOne)
    THEN capacity - 1
    ELSE capacity

\* A variant that counts the overload itself as dropped.
DroppedIsOverload(sendingRate, capacity) == sendingRate - capacity

\* const dropped = sendingRate - delivered, overload > 0
DroppedUnderOverload(sendingRate, capacity) ==
    sendingRate - DeliveredUnderOverload(sendingRate, capacity)

\* Windows below 200 for which the binary64 product w * 0.7 falls just below
\* the exact value 7w/10, an integer.
BackoffRoundedBelow == {90, 170, 180}

\* A variant that keeps the window on overload.
BackoffWindowKeeps(w) == w

\* Math.max(1, Math.floor(tcpWindowSize * 0.7))
BackoffWindow(w) ==
    Max(1, IF w \in BackoffRoundedBelow THEN (w * 7) \div 10 - 1
                                        ELSE (w * 7) \div 10)

\* A variant without the clamp at packetRate.
GrowWindowUnclamped(rate, w) == w + 1

\* A variant whose clamp compares strictly and stops one short of packetRate.
GrowWindowStopsShort(rate, w) == IF w + 1 < rate THEN w + 1 ELSE w

\* A variant that grows the window by two.
GrowWindowByTwo(rate, w) == Min(rate, w + 2)

\* A variant that doubles the window (slow start of real TCP).
GrowWindowDoubles(rate, w) == Min(rate, 2 * w)

\* Math.min(packetRate, tcpWindowSize + 1)
GrowWindow(rate, w) == Min(rate, w + 1)

\* A variant that adapts the window under both protocols.
NextWindowAnyProtocol(protocol, rate, w, overload) ==
    IF overload > 0 THEN BackoffWindow(w) ELSE GrowWindow(rate, w)

\* The window after a tick: the two 'if (currentProtocol === 'tcp')' branches
NextWindow(protocol, rate, w, overload) ==
    IF protocol = "tcp"
    THEN IF overload > 0 THEN BackoffWindow(w) ELSE GrowWindow(rate, w)
    ELSE w

\* A variant that sends at packetRate under both protocols.
SendingRateIgnoresWindow(protocol, rate, w) == rate

\* currentProtocol === 'tcp' ? Math.min(packetRate, tcpWindowSize) : packetRate
SendingRate(protocol, rate, w) ==
    IF protocol = "tcp" THEN Min(rate, w) ELSE rate

\* Math.max(0, sendingRate - networkCapacity)
Overload(sendingRate, capacity) == Max(0, sendingRate - capacity)

\* A variant that calls the link congested only above 150 percent.
NetworkStatusLenient(rate, capacity) ==
    IF capacity = 0 THEN "Congested"
    ELSE IF 100 * rate < 60 * capacity THEN "Normal"
    ELSE IF 100 * rate < 150 * capacity THEN "Warning"
    ELSE "Congested"

\* A variant whose thresholds are inclusive (<= 60, <= 85).
NetworkStatusInclusive(rate, capacity) ==
    IF capacity = 0 THEN "Congested"
    ELSE IF 100 * rate <= 60 * capacity THEN "Normal"
    ELSE IF 100 * rate <= 85 * capacity THEN "Warning"
    ELSE "Congested"

\* updateNetworkVisualization(): utilization = (packetRate / networkCapacity)
\* * 100 against 60 and 85. The binary64 quotient and product decide as the
\* exact ratio does for operands up to 2000; a zero capacity gives Infinity or
\* NaN, for which both comparisons are false.
NetworkStatus(rate, capacity) ==
    IF capacity = 0 THEN "Congested"
    ELSE IF 100 * rate < 60 * capacity THEN "Normal"
    ELSE IF 100 * rate < 85 * capacity THEN "Warning"
    ELSE "Congested"

\* ------------------------------------------------------------ chart data
EmptyChart == [time |-> << >>, throughput |-> << >>, loss |-> << >>]

\* chartData.throughput[chartData.throughput.length - 1] || 0
LastThroughput(chart) ==
    IF Len(chart.throughput) = 0 THEN 0
    ELSE chart.throughput[Len(chart.throughput)]

\* A variant that pushes the growth of the loss instead of the total.
PushSampleLossDifference(chart, t, delivered, dropped) ==
    [time       |-> Append(chart.time, t),
     throughput |-> Append(chart.throughput, delivered - LastThroughput(chart)),
     loss       |-> Append(chart.loss,
                           IF Len(chart.loss) = 0 THEN dropped
                           ELSE dropped - chart.loss[Len(chart.loss)])]

\* A variant that pushes 0 as the throughput of the first sample.
PushSampleFirstZero(chart, t, delivered, dropped) ==
    [time       |-> Append(chart.time, t),
     throughput |-> Append(chart.throughput,
                           IF Len(chart.throughput) = 0 THEN 0
                           ELSE delivered - LastThroughput(chart)),
     loss       |-> Append(chart.loss, dropped)]

\* the three push calls
PushSample(chart, t, delivered, dropped) ==
    [time       |-> Append(chart.time, t),
     throughput |-> Append(chart.throughput, delivered - LastThroughput(chart)),
     loss       |-> Append(chart.loss, dropped)]

\* A variant that never evicts.
TrimChartNever(chart) == chart

\* A variant that evicts the newest sample (pop) instead of the oldest.
TrimChartNewest(chart) ==
    IF Len(chart.time) > ChartCapacity
    THEN [time       |-> SubSeq(chart.time, 1, Len(chart.time) - 1),
          throughput |-> SubSeq(chart.throughput, 1, Len(chart.throughput) - 1),
          loss       |-> SubSeq(chart.loss, 1, Len(chart.loss) - 1)]
    ELSE chart

\* if (chartData.time.length > 8) shift all three arrays
TrimChart(chart) ==
    IF Len(chart.time) > ChartCapacity
    THEN [time       |-> Tail(chart.time),
          throughput |-> Tail(chart.throughput),
          loss       |-> Tail(chart.loss)]
    ELSE chart

\* ------------------------------------------------------------------ Init
\* EnhancedFileTransferApp after its constructor: nothing selected, the join
\* request of initChat() sent.
AppConstructed ==
    /\ selectedFiles = << >>
    /\ targetServers = << >>
    /\ startTransferBtn = MarkupStatus
    /\ joinPending = TRUE
    /\ isConnected = FALSE
    /\ lastMessageId = 0
    /\ pollInterval = "null"
    /\ pollRequests = {}
    /\ nextPollNo = 1
    /\ serverMessages = 0
    /\ chatMessages = << >>

Init ==
    /\ packetRate = InitialPacketRate
    /\ networkCapacity = InitialNetworkCapacity
    /\ sentPackets = 0
    /\ deliveredPackets = 0
    /\ droppedPackets = 0
    /\ currentProtocol = "tcp"
    /\ isSimulationRunning = FALSE
    /\ tcpWindowSize = InitialWindowSize
    /\ chartData = EmptyChart
    /\ countedProtocols = {}
    /\ AppConstructed
    /\ simulationInterval = 0
    /\ activeIntervals = {}
    /\ nextTimerId = 1
    /\ clock = 0
    /\ networkStatus = MarkupStatus
    /\ currentSlide = InitialSlide
    /\ trafficInterval = 0
    /\ trafficTimers = {}
    /\ trafficDensity = LowDensity
    /\ activePackets = 0
    /\ cars = {}
    /\ carTimeouts = {}
    /\ lastOp = "load"

\* --------------------------------------------------------------- actions
\* A variant that stops the simulation and clears its statistics, as
\* resetSimulation() does.
SetPacketRateResets(v) ==
    /\ lastOp' = "setPacketRate"
    /\ UNCHANGED appVars
    /\ UNCHANGED pageVars
    /\ packetRate' = v
    /\ isSimulationRunning' = FALSE
    /\ activeIntervals' = activeIntervals \ {simulationInterval}
    /\ sentPackets' = 0
    /\ deliveredPackets' = 0
    /\ droppedPackets' = 0
    /\ tcpWindowSize' = InitialWindowSize
    /\ chartData' = EmptyChart
    /\ countedProtocols' = {}
    /\ networkStatus' = "Normal"
    /\ UNCHANGED <<networkCapacity, currentProtocol, simulationInterval,
                   nextTimerId, clock>>

\* 'input' listener of the packetRate slider
SetPacketRate(v) ==
    /\ lastOp' = "setPacketRate"
    /\ UNCHANGED appVars
    /\ UNCHANGED pageVars
    /\ packetRate' = v
    /\ UNCHANGED <<networkCapacity, currentProtocol, isSimulationRunning,
                   runVars, timerVars, clock, networkStatus>>

\* 'input' listener of the networkCapacity slider
SetNetworkCapacity(v) ==
    /\ lastOp' = "setNetworkCapacity"
    /\ UNCHANGED appVars
    /\ UNCHANGED pageVars
    /\ networkCapacity' = v
    /\ UNCHANGED <<packetRate, currentProtocol, isSimulationRunning,
                   runVars, timerVars, clock, networkStatus>>

\* A variant that leaves the congestion window as it is.
ResetNetworkStatsKeepsWindow ==
    /\ sentPackets' = 0
    /\ deliveredPackets' = 0
    /\ droppedPackets' = 0
    /\ tcpWindowSize' = tcpWindowSize
    /\ chartData' = EmptyChart
    /\ countedProtocols' = {}

\* resetNetworkStats(), as a relation on the statistics
ResetNetworkStats ==
    /\ sentPackets' = 0
    /\ deliveredPackets' = 0
    /\ droppedPackets' = 0
    /\ tcpWindowSize' = InitialWindowSize
    /\ chartData' = EmptyChart
    /\ countedProtocols' = {}

\* A variant that resumes: it starts the timer and keeps the statistics.
StartSimulationResumes ==
    /\ lastOp' = "startSimulation"
    /\ UNCHANGED appVars
    /\ UNCHANGED pageVars
    /\ IF isSimulationRunning
       THEN UNCHANGED <<configVars, isSimulationRunning, runVars,
                        timerVars, clock, networkStatus>>
       ELSE /\ nextTimerId <= MaxTimers
            /\ isSimulationRunning' = TRUE
            /\ simulationInterval' = nextTimerId
            /\ activeIntervals' = activeIntervals \cup {nextTimerId}
            /\ nextTimerId' = nextTimerId + 1
            /\ UNCHANGED <<configVars, runVars, clock, networkStatus>>

\* A variant without the early return of a running simulation.
StartSimulationUnguarded ==
    /\ lastOp' = "startSimulation"
    /\ UNCHANGED appVars
    /\ UNCHANGED pageVars
    /\ nextTimerId <= MaxTimers
    /\ isSimulationRunning' = TRUE
    /\ ResetNetworkStats
    /\ simulationInterval' = nextTimerId
    /\ activeIntervals' = activeIntervals \cup {nextTimerId}
    /\ nextTimerId' = nextTimerId + 1
    /\ UNCHANGED <<configVars, clock, networkStatus>>

\* A variant that runs the first tick inside startSimulation().
StartSimulationTicksNow ==
    /\ lastOp' = "startSimulation"
    /\ UNCHANGED appVars
    /\ UNCHANGED pageVars
    /\ IF isSimulationRunning
       THEN UNCHANGED <<configVars, isSimulationRunning, runVars,
                        timerVars, clock, networkStatus>>
       ELSE LET sendingRate == SendingRate(currentProtocol, packetRate,
                                           InitialWindowSize)
                overload    == Overload(sendingRate, networkCapacity)
                delivered   == IF overload > 0
                               THEN DeliveredUnderOverload(sendingRate,
                                                           networkCapacity)
                               ELSE sendingRate
            IN  /\ nextTimerId <= MaxTimers
                /\ isSimulationRunning' = TRUE
                /\ sentPackets' = sendingRate
                /\ deliveredPackets' = delivered
                /\ droppedPackets' = sendingRate - delivered
                /\ tcpWindowSize' = InitialWindowSize
                /\ chartData' = PushSample(EmptyChart, clock, delivered,
                                           sendingRate - delivered)
                /\ countedProtocols' = {currentProtocol}
                /\ simulationInterval' = nextTimerId
                /\ activeIntervals' = activeIntervals \cup {nextTimerId}
                /\ nextTimerId' = nextTimerId + 1
                /\ UNCHANGED <<configVars, clock, networkStatus>>

\* startSimulation()
StartSimulation ==
    /\ lastOp' = "startSimulation"
    /\ UNCHANGED appVars
    /\ UNCHANGED pageVars
    /\ IF isSimulationRunning
       THEN UNCHANGED <<configVars, isSimulationRunning, runVars,
                        timerVars, clock, networkStatus>>
       ELSE /\ nextTimerId <= MaxTimers
            /\ isSimulationRunning' = TRUE
            /\ ResetNetworkStats
            /\ simulationInterval' = nextTimerId
            /\ activeIntervals' = activeIntervals \cup {nextTimerId}
            /\ nextTimerId' = nextTimerId + 1
            /\ UNCHANGED <<configVars, clock, networkStatus>>

\* A variant that clears the flag and leaves the timer scheduled.
PauseEffectKeepsTimer ==
    /\ isSimulationRunning' = FALSE
    /\ UNCHANGED <<activeIntervals, simulationInterval, nextTimerId>>

\* pauseSimulation(), as a relation on the lifecycle flag and the timers
PauseEffect ==
    /\ isSimulationRunning' = FALSE
    /\ activeIntervals' = activeIntervals \ {simulationInterval}
    /\ UNCHANGED <<simulationInterval, nextTimerId>>

\* A variant that clears the flag and leaves the timer scheduled.
PauseSimulationFlagOnly ==
    /\ lastOp' = "pauseSimulation"
    /\ UNCHANGED appVars
    /\ UNCHANGED pageVars
    /\ isSimulationRunning' = FALSE
    /\ UNCHANGED <<configVars, runVars, timerVars, clock, networkStatus>>

\* A variant that also clears the statistics.
PauseSimulationResets ==
    /\ lastOp' = "pauseSimulation"
    /\ UNCHANGED appVars
    /\ UNCHANGED pageVars
    /\ PauseEffect
    /\ ResetNetworkStats
    /\ UNCHANGED <<configVars, clock, networkStatus>>

\* pauseSimulation()
PauseSimulation ==
    /\ lastOp' = "pauseSimulation"
    /\ UNCHANGED appVars
    /\ UNCHANGED pageVars
    /\ PauseEffect
    /\ UNCHANGED <<configVars, runVars, clock, networkStatus>>

\* resetSimulation(): pauseSimulation(); resetNetworkStats(); resetCharts();
\* resetNetworkVisualization()
ResetSimulation ==
    /\ lastOp' = "resetSimulation"
    /\ UNCHANGED appVars
    /\ UNCHANGED pageVars
    /\ PauseEffect
    /\ ResetNetworkStats
    /\ networkStatus' = "Normal"
    /\ UNCHANGED <<configVars, clock>>

\* A variant that switches the protocol and never resets.
SetProtocolNoReset(p) ==
    /\ lastOp' = SetProtocolOp(p)
    /\ UNCHANGED appVars
    /\ UNCHANGED pageVars
    /\ currentProtocol' = p
    /\ UNCHANGED <<packetRate, networkCapacity, isSimulationRunning,
                   runVars, timerVars, clock, networkStatus>>

\* setProtocol(protocol)
SetProtocol(p) ==
    /\ lastOp' = SetProtocolOp(p)
    /\ UNCHANGED appVars
    /\ UNCHANGED pageVars
    /\ currentProtocol' = p
    /\ IF isSimulationRunning
       THEN /\ PauseEffect
            /\ ResetNetworkStats
            /\ networkStatus' = "Normal"
       ELSE UNCHANGED <<isSimulationRunning, runVars, timerVars,
                        networkStatus>>
    /\ UNCHANGED <<packetRate, networkCapacity, clock>>

\* The callback of interval timer id: simulateNetworkTraffic() and then
\* updateNetworkVisualization()
SimulateNetworkTraffic(id) ==
    LET sendingRate == SendingRate(currentProtocol, packetRate, tcpWindowSize)
        overload    == Overload(sendingRate, networkCapacity)
        delivered   == IF overload > 0
                       THEN DeliveredUnderOverload(sendingRate, networkCapacity)
                       ELSE sendingRate
        dropped     == IF overload > 0
                       THEN DroppedUnderOverload(sendingRate, networkCapacity)
                       ELSE 0
    IN  /\ id \in activeIntervals
        /\ lastOp' = "simulateNetworkTraffic"
        /\ UNCHANGED appVars
        /\ UNCHANGED pageVars
        /\ clock' = clock + 1
        /\ sentPackets' = sentPackets + sendingRate
        /\ deliveredPackets' = deliveredPackets + delivered
        /\ droppedPackets' = droppedPackets + dropped
        /\ tcpWindowSize' = NextWindow(currentProtocol, packetRate,
                                       tcpWindowSize, overload)
        /\ chartData' = TrimChart(PushSample(chartData, clock + 1,
                                             deliveredPackets', droppedPackets'))
        /\ countedProtocols' = countedProtocols \cup {currentProtocol}
        /\ networkStatus' = NetworkStatus(packetRate, networkCapacity)
        /\ UNCHANGED <<configVars, isSimulationRunning, timerVars>>

Next ==
    \/ \E v \in RateInputs : SetPacketRate(v)
    \/ \E v \in CapacityInputs : SetNetworkCapacity(v)
    \/ \E p \in Protocols : SetProtocol(p)
    \/ StartSimulation
    \/ PauseSimulation
    \/ ResetSimulation
    \/ /\ clock < MaxClock
       /\ \E id \in activeIntervals : SimulateNetworkTraffic(id)

Spec == Init /\ [][Next]_vars

\* Long runs: the capacity slider, the protocol tabs and the lifecycle buttons
\* with enough timer periods to fill the chart and evict from it.
NextLong ==
    \/ \E v \in CapacityInputs : SetNetworkCapacity(v)
    \/ \E p \in Protocols : SetProtocol(p)
    \/ StartSimulation
    \/ PauseSimulation
    \/ ResetSimulation
    \/ /\ clock < MaxLongClock
       /\ \E id \in activeIntervals : SimulateNetworkTraffic(id)

SpecLong == Init /\ [][NextLong]_vars

\* The page with sliders that also deliver 0.
NextRaw ==
    \/ \E v \in RawRateInputs : SetPacketRate(v)
    \/ \E v \in RawCapacityInputs : SetNetworkCapacity(v)
    \/ \E p \in Protocols : SetProtocol(p)
    \/ StartSimulation
    \/ PauseSimulation
    \/ ResetSimulation
    \/ /\ clock < MaxClock
       /\ \E id \in activeIntervals : SimulateNetworkTraffic(id)

SpecRaw == Init /\ [][NextRaw]_vars

\* The page after the sliders were set to rate and capacity and Start was
\* pressed under TCP.
Started(rate, capacity) ==
    /\ packetRate = rate
    /\ networkCapacity = capacity
    /\ sentPackets = 0
    /\ deliveredPackets = 0
    /\ droppedPackets = 0
    /\ currentProtocol = "tcp"
    /\ isSimulationRunning = TRUE
    /\ tcpWindowSize = InitialWindowSize
    /\ chartData = EmptyChart
    /\ countedProtocols = {}
    /\ AppConstructed
    /\ simulationInterval = 1
    /\ activeIntervals = {1}
    /\ nextTimerId = 2
    /\ clock = 0
    /\ networkStatus = MarkupStatus
    /\ currentSlide = InitialSlide
    /\ trafficInterval = 0
    /\ trafficTimers = {}
    /\ trafficDensity = LowDensity
    /\ activePackets = 0
    /\ cars = {}
    /\ carTimeouts = {}
    /\ lastOp = "startSimulation"

\* Classifier runs: every slider position up to the classifier bounds, then
\* the timer fires.
InitClassify ==
    \E rate \in 1..MaxClassifyRate, capacity \in 1..MaxClassifyCapacity :
        Started(rate, capacity)

NextClassify ==
    /\ clock < MaxClassifyClock
    /\ \E id \in activeIntervals : SimulateNetworkTraffic(id)

SpecClassify == InitClassify /\ [][NextClassify]_vars

\* Window runs: a wide link on which the TCP window grows tick by tick, and
\* the capacity slider pulled down to 1 at some moment.
InitBackoff == Started(WideRate, WideCapacity)

NextBackoff ==
    \/ SetNetworkCapacity(1)
    \/ /\ clock < MaxBackoffClock
       /\ \E id \in activeIntervals : SimulateNetworkTraffic(id)

SpecBackoff == InitBackoff /\ [][NextBackoff]_vars

\* ------------------------------------------------- the traffic animation
\* clearInterval(trafficInterval), on the browser's one table of timers
ClearTrafficInterval ==
    /\ trafficTimers' = trafficTimers \ {trafficInterval}
    /\ activeIntervals' = activeIntervals \ {trafficInterval}

\* A variant that also clears the simulation's statistics.
ResetTrafficResetsStats ==
    /\ lastOp' = "resetTraffic"
    /\ UNCHANGED appVars
    /\ ClearTrafficInterval
    /\ trafficDensity' = LowDensity
    /\ activePackets' = 0
    /\ cars' = {}
    /\ ResetNetworkStats
    /\ UNCHANGED <<configVars, isSimulationRunning, simulationInterval,
                   nextTimerId, clock, networkStatus, currentSlide,
                   trafficInterval, carTimeouts>>

\* resetTraffic(): the pending car timeouts stay scheduled
ResetTraffic ==
    /\ lastOp' = "resetTraffic"
    /\ UNCHANGED appVars
    /\ ClearTrafficInterval
    /\ trafficDensity' = LowDensity
    /\ activePackets' = 0
    /\ cars' = {}
    /\ UNCHANGED <<configVars, runVars, isSimulationRunning,
                   simulationInterval, nextTimerId, clock, networkStatus,
                   currentSlide, trafficInterval, carTimeouts>>

\* startTraffic(): resetTraffic() and a new interval timer
StartTraffic ==
    /\ lastOp' = "startTraffic"
    /\ UNCHANGED appVars
    /\ nextTimerId <= MaxTrafficTimers
    /\ trafficTimers' = (trafficTimers \ {trafficInterval}) \cup {nextTimerId}
    /\ activeIntervals' = activeIntervals \ {trafficInterval}
    /\ trafficDensity' = LowDensity
    /\ activePackets' = 0
    /\ cars' = {}
    /\ trafficInterval' = nextTimerId
    /\ nextTimerId' = nextTimerId + 1
    /\ UNCHANGED <<configVars, runVars, isSimulationRunning,
                   simulationInterval, clock, networkStatus, currentSlide,
                   carTimeouts>>

\* increaseTraffic()
IncreaseTraffic ==
    /\ lastOp' = "increaseTraffic"
    /\ UNCHANGED appVars
    /\ trafficDensity' = HighDensity
    /\ UNCHANGED <<configVars, runVars, isSimulationRunning, timerVars,
                   clock, networkStatus, currentSlide, trafficInterval,
                   trafficTimers, activePackets, cars, carTimeouts>>

\* stopTraffic()
StopTraffic ==
    /\ lastOp' = "stopTraffic"
    /\ UNCHANGED appVars
    /\ ClearTrafficInterval
    /\ UNCHANGED <<configVars, runVars, isSimulationRunning,
                   simulationInterval, nextTimerId, clock, networkStatus,
                   currentSlide, trafficInterval, trafficDensity,
                   activePackets, cars, carTimeouts>>

\* The callback of traffic timer id: generateTraffic(), trafficDensity calls
\* of createCar(), each appending a car and scheduling its removal. The lane
\* and the look of a car are random and not recorded.
GenerateTraffic(id) ==
    LET created == nextTimerId .. (nextTimerId + trafficDensity - 1)
    IN  /\ id \in trafficTimers
        /\ lastOp' = "generateTraffic"
        /\ UNCHANGED appVars
        /\ cars' = cars \cup created
        /\ carTimeouts' = carTimeouts \cup created
        /\ activePackets' = activePackets + trafficDensity
        /\ nextTimerId' = nextTimerId + trafficDensity
        /\ UNCHANGED <<configVars, runVars, isSimulationRunning,
                       simulationInterval, activeIntervals, clock,
                       networkStatus, currentSlide, trafficInterval,
                       trafficTimers, trafficDensity>>

\* A variant without the car.parentNode test: it counts down even when
\* resetTraffic() has already taken the car away.
RemoveCarUnchecked(c) ==
    /\ c \in carTimeouts
    /\ lastOp' = "removeCar"
    /\ UNCHANGED appVars
    /\ carTimeouts' = carTimeouts \ {c}
    /\ cars' = cars \ {c}
    /\ activePackets' = activePackets - 1
    /\ UNCHANGED <<configVars, runVars, isSimulationRunning, timerVars,
                   clock, networkStatus, currentSlide, trafficInterval,
                   trafficTimers, trafficDensity>>

\* The timeout of car c fires: the car is removed if it is still in a lane.
RemoveCar(c) ==
    /\ c \in carTimeouts
    /\ lastOp' = "removeCar"
    /\ UNCHANGED appVars
    /\ carTimeouts' = carTimeouts \ {c}
    /\ IF c \in cars
       THEN /\ cars' = cars \ {c}
            /\ activePackets' = activePackets - 1
       ELSE UNCHANGED <<cars, activePackets>>
    /\ UNCHANGED <<configVars, runVars, isSimulationRunning, timerVars,
                   clock, networkStatus, currentSlide, trafficInterval,
                   trafficTimers, trafficDensity>>

\* showSlide(slideNumber): off slides 2 and 3 it calls stopTraffic() and then
\* stopSimulation(), which no script defines: the ReferenceError ends the
\* handler there.
ShowSlide(n) ==
    /\ lastOp' = "showSlide"
    /\ UNCHANGED appVars
    /\ currentSlide' = n
    /\ IF n # 2 /\ n # 3
       THEN ClearTrafficInterval
       ELSE UNCHANGED <<trafficTimers, activeIntervals>>
    /\ UNCHANGED <<configVars, runVars, isSimulationRunning,
                   simulationInterval, nextTimerId, clock, networkStatus,
                   trafficInterval, trafficDensity, activePackets, cars,
                   carTimeouts>>

\* The page with the traffic animation next to the simulation.
NextTraffic ==
    \/ \E n \in 1..MaxSlide : ShowSlide(n)
    \/ StartTraffic
    \/ IncreaseTraffic
    \/ ResetTraffic
    \/ StopTraffic
    \/ /\ nextTimerId + trafficDensity - 1 <= MaxTrafficTimers
       /\ \E id \in trafficTimers : GenerateTraffic(id)
    \/ \E c \in carTimeouts : RemoveCar(c)
    \/ StartSimulation
    \/ /\ clock < MaxTrafficClock
       /\ \E id \in activeIntervals : SimulateNetworkTraffic(id)

SpecTraffic == Init /\ [][NextTraffic]_vars

\* ------------------------------------------- fixed-configuration scenarios
\* The page after the protocol tab p was chosen, the sliders were set to rate
\* and capacity, and Start was pressed.
StartedWith(p, rate, capacity) ==
    /\ packetRate = rate
    /\ networkCapacity = capacity
    /\ sentPackets = 0
    /\ deliveredPackets = 0
    /\ droppedPackets = 0
    /\ currentProtocol = p
    /\ isSimulationRunning = TRUE
    /\ tcpWindowSize = InitialWindowSize
    /\ chartData = EmptyChart
    /\ countedProtocols = {}
    /\ AppConstructed
    /\ simulationInterval = 1
    /\ activeIntervals = {1}
    /\ nextTimerId = 2
    /\ clock = 0
    /\ networkStatus = MarkupStatus
    /\ currentSlide = InitialSlide
    /\ trafficInterval = 0
    /\ trafficTimers = {}
    /\ trafficDensity = LowDensity
    /\ activePackets = 0
    /\ cars = {}
    /\ carTimeouts = {}
    /\ lastOp = "startSimulation"

InitFixed ==
    \E p \in Protocols, rate \in 1..MaxFixedRate,
       capacity \in 1..MaxFixedCapacity : StartedWith(p, rate, capacity)

\* Nothing but the timer: the configuration stays as it was at Start.
NextFixed ==
    /\ clock < MaxFixedClock
    /\ \E id \in activeIntervals : SimulateNetworkTraffic(id)

SpecFixed == InitFixed /\ [][NextFixed]_vars

\* The fixed-configuration runs with the timer firing as long as it is
\* scheduled: setInterval keeps calling the callback every second.
SpecFixedLive == InitFixed /\ [][NextFixed]_vars /\ WF_vars(NextFixed)

\* ------------------------------------------------- the file transfer page
\* Texts are sequences of characters.
\* Texts typed into the server-ip field.
IpInputs ==
    { << >>, <<" ">>, <<"a">>, <<" ", "a">>, <<"a", " ">>, <<"b">> }
\* Texts found in the server-port field: unsigned, without leading blanks.
PortInputs ==
    { << >>, <<"0">>, <<"8", "0">>, <<"8", "0", "x">>, <<"x", "8">>,
      <<"8", "8", "8", "8">> }
\* Lists of files the file input can deliver.
FileSelections == { << >>, <<"f1">>, <<"f2">>, <<"f1", "f2">> }

\* String.prototype.trim(), for the blank as the only white space
RECURSIVE TrimStart(_)
TrimStart(t) ==
    IF t # << >> /\ Head(t) = " " THEN TrimStart(Tail(t)) ELSE t

RECURSIVE TrimEnd(_)
TrimEnd(t) ==
    IF t # << >> /\ t[Len(t)] = " "
    THEN TrimEnd(SubSeq(t, 1, Len(t) - 1))
    ELSE t

Trim(t) == TrimEnd(TrimStart(t))

DigitValue ==
    ("0" :> 0) @@ ("1" :> 1) @@ ("2" :> 2) @@ ("3" :> 3) @@ ("4" :> 4) @@
    ("5" :> 5) @@ ("6" :> 6) @@ ("7" :> 7) @@ ("8" :> 8) @@ ("9" :> 9)

\* The digits a text begins with.
RECURSIVE LeadingDigits(_)
LeadingDigits(t) ==
    IF t # << >> /\ Head(t) \in DOMAIN DigitValue
    THEN <<Head(t)>> \o LeadingDigits(Tail(t))
    ELSE << >>

RECURSIVE DecimalValue(_)
DecimalValue(d) ==
    IF d = << >> THEN 0
    ELSE 10 * DecimalValue(SubSeq(d, 1, Len(d) - 1)) + DigitValue[d[Len(d)]]

\* The result of parseInt for a text that does not begin with a digit.
NaN == -1

\* parseInt(text), for unsigned texts without leading blanks
ParseInt(t) ==
    IF LeadingDigits(t) = << >> THEN NaN ELSE DecimalValue(LeadingDigits(t))

\* parseInt(portInput.value) || 8888: NaN and 0 are falsy
PortOf(t) ==
    IF ParseInt(t) = NaN \/ ParseInt(t) = 0 THEN DefaultPort ELSE ParseInt(t)

\* updateBatchTransferButton(), for the lists as they are after the handler
BatchTransferButton(files, servers) ==
    IF Len(files) > 0 /\ Len(servers) > 0 THEN "enabled" ELSE "disabled"

\* targetServers.splice(index, 1), selectedFiles.splice(index, 1)
Splice(list, index) ==
    [k \in 1..(Len(list) - 1) |-> IF k <= index THEN list[k] ELSE list[k + 1]]

\* A variant that looks for the text as typed, before trim(), in the list.
AddTargetServerComparesRaw(ipText, portText) ==
    LET ip   == Trim(ipText)
        port == PortOf(portText)
    IN  /\ lastOp' = "addTargetServer"
        /\ IF ip = << >>
              \/ \E k \in 1..Len(targetServers) :
                    /\ targetServers[k].ip = ipText
                    /\ targetServers[k].port = port
           THEN UNCHANGED <<targetServers, startTransferBtn>>
           ELSE /\ targetServers' =
                      Append(targetServers, [ip |-> ip, port |-> port])
                /\ startTransferBtn' =
                      BatchTransferButton(selectedFiles, targetServers')
        /\ UNCHANGED <<analyzerVars, selectedFiles, chatVars>>

\* addTargetServer(), with the texts of the two input fields
AddTargetServer(ipText, portText) ==
    LET ip   == Trim(ipText)
        port == PortOf(portText)
    IN  /\ lastOp' = "addTargetServer"
        /\ IF ip = << >>
              \/ \E k \in 1..Len(targetServers) :
                    /\ targetServers[k].ip = ip
                    /\ targetServers[k].port = port
           THEN UNCHANGED <<targetServers, startTransferBtn>>
           ELSE /\ targetServers' =
                      Append(targetServers, [ip |-> ip, port |-> port])
                /\ startTransferBtn' =
                      BatchTransferButton(selectedFiles, targetServers')
        /\ UNCHANGED <<analyzerVars, selectedFiles, chatVars>>

\* removeTargetServer(index), from the Remove button of a listed server
RemoveTargetServer(index) ==
    /\ index \in 0..(Len(targetServers) - 1)
    /\ lastOp' = "removeTargetServer"
    /\ targetServers' = Splice(targetServers, index)
    /\ startTransferBtn' = BatchTransferButton(selectedFiles, targetServers')
    /\ UNCHANGED <<analyzerVars, selectedFiles, chatVars>>

\* handleFileSelection(event)
HandleFileSelection(files) ==
    /\ lastOp' = "handleFileSelection"
    /\ selectedFiles' = files
    /\ startTransferBtn' = BatchTransferButton(selectedFiles', targetServers)
    /\ UNCHANGED <<analyzerVars, targetServers, chatVars>>

\* removeFile(index), from the Remove button of a listed file
RemoveFile(index) ==
    /\ index \in 0..(Len(selectedFiles) - 1)
    /\ lastOp' = "removeFile"
    /\ selectedFiles' = Splice(selectedFiles, index)
    /\ startTransferBtn' = BatchTransferButton(selectedFiles', targetServers)
    /\ UNCHANGED <<analyzerVars, targetServers, chatVars>>

\* clearSelection()
ClearSelection ==
    /\ lastOp' = "clearSelection"
    /\ selectedFiles' = << >>
    /\ targetServers' = << >>
    /\ startTransferBtn' = BatchTransferButton(selectedFiles', targetServers')
    /\ UNCHANGED <<analyzerVars, chatVars>>

NextTransfer ==
    \/ \E ipText \in IpInputs, portText \in PortInputs :
          AddTargetServer(ipText, portText)
    \/ \E index \in 0..MaxIndex : RemoveTargetServer(index)
    \/ \E files \in FileSelections : HandleFileSelection(files)
    \/ \E index \in 0..MaxIndex : RemoveFile(index)
    \/ ClearSelection

SpecTransfer == Init /\ [][NextTransfer]_vars

\* ------------------------------------------------------------- the chat
\* The id the chat server gives its n-th message: a text with the number
\* after an underscore.
DigitText == <<"1", "2", "3", "4", "5", "6", "7", "8", "9">>
MessageIdText(n) == <<"m", "s", "g", "_", DigitText[n]>>

\* The messages of /api/chat/messages?since=k and of the join response: the
\* server's messages with a number above k, oldest first.
MessagesSince(k) ==
    [i \in 1..(IF serverMessages > k THEN serverMessages - k ELSE 0)
       |-> [no |-> k + i, id |-> MessageIdText(k + i)]]

\* message.id.split('_')[1]
RECURSIVE UpToUnderscore(_)
UpToUnderscore(t) ==
    IF t = << >> \/ Head(t) = "_" THEN << >>
    ELSE <<Head(t)>> \o UpToUnderscore(Tail(t))

RECURSIVE AfterUnderscore(_)
AfterUnderscore(t) ==
    IF t = << >> THEN << >>
    ELSE IF Head(t) = "_" THEN Tail(t)
    ELSE AfterUnderscore(Tail(t))

SecondPart(t) == UpToUnderscore(AfterUnderscore(t))

\* the forEach of pollForMessages() on lastMessageId
RECURSIVE LastIdAfter(_, _)
LastIdAfter(last, messages) ==
    IF messages = << >> THEN last
    ELSE LET msgId == ParseInt(SecondPart(Head(messages).id))
         IN  LastIdAfter(IF msgId > last THEN msgId ELSE last, Tail(messages))

\* The message elements appended for a list of messages, in its order.
Appended(messages) == [i \in 1..Len(messages) |-> messages[i].no]

\* Somebody sends a message: the server's log grows.
ServerMessage ==
    /\ lastOp' = "serverMessage"
    /\ serverMessages' = serverMessages + 1
    /\ UNCHANGED <<analyzerVars, transferVars, joinPending, isConnected,
                   lastMessageId, pollInterval, pollRequests, nextPollNo,
                   chatMessages>>

\* joinChat() after its awaits; ok says whether the join succeeded. On
\* success: loadChatHistory(result.messages) and startPolling().
JoinChat(ok) ==
    /\ joinPending
    /\ lastOp' = "joinChat"
    /\ joinPending' = FALSE
    /\ IF ok
       THEN /\ isConnected' = TRUE
            /\ chatMessages' = chatMessages \o Appended(MessagesSince(0))
            /\ pollInterval' = "timer"
       ELSE UNCHANGED <<isConnected, chatMessages, pollInterval>>
    /\ UNCHANGED <<analyzerVars, transferVars, lastMessageId, pollRequests,
                   nextPollNo, serverMessages>>

\* The polling timer fires: pollForMessages() up to its fetch.
PollForMessages ==
    /\ pollInterval = "timer"
    /\ lastOp' = "pollForMessages"
    /\ IF isConnected
       THEN /\ pollRequests' = pollRequests \cup
                               {[no |-> nextPollNo, since |-> lastMessageId]}
            /\ nextPollNo' = nextPollNo + 1
       ELSE UNCHANGED <<pollRequests, nextPollNo>>
    /\ UNCHANGED <<analyzerVars, transferVars, joinPending, isConnected,
                   lastMessageId, pollInterval, serverMessages, chatMessages>>

\* pollForMessages() after its awaits, for the request r; ok says whether the
\* response arrived with status 'success'.
PollResponse(r, ok) ==
    /\ r \in pollRequests
    /\ lastOp' = "pollResponse"
    /\ pollRequests' = pollRequests \ {r}
    /\ IF ok
       THEN /\ chatMessages' = chatMessages \o Appended(MessagesSince(r.since))
            /\ lastMessageId' = LastIdAfter(lastMessageId,
                                            MessagesSince(r.since))
       ELSE UNCHANGED <<chatMessages, lastMessageId>>
    /\ UNCHANGED <<analyzerVars, transferVars, joinPending, isConnected,
                   pollInterval, nextPollNo, serverMessages>>

NextChat ==
    \/ /\ serverMessages < MaxMessages
       /\ ServerMessage
    \/ \E ok \in BOOLEAN : JoinChat(ok)
    \/ /\ nextPollNo <= MaxPolls
       /\ PollForMessages
    \/ \E r \in pollRequests, ok \in BOOLEAN : PollResponse(r, ok)

SpecChat == Init /\ [][NextChat]_vars

TypeOK ==
    /\ packetRate \in Nat /\ networkCapacity \in Nat
    /\ sentPackets \in Nat /\ deliveredPackets \in Nat /\ droppedPackets \in Nat
    /\ currentProtocol \in Protocols
    /\ isSimulationRunning \in BOOLEAN
    /\ tcpWindowSize \in Nat
    /\ clock \in Nat
    /\ networkStatus \in StatusTexts \cup {MarkupStatus}
    /\ currentSlide \in 1..MaxSlide
    /\ trafficInterval \in Nat
    /\ trafficDensity \in {LowDensity, HighDensity}
    /\ activePackets \in Nat
    /\ cars \subseteq carTimeouts
    /\ countedProtocols \subseteq Protocols
    /\ startTransferBtn \in {MarkupStatus, "enabled", "disabled"}
    /\ joinPending \in BOOLEAN /\ isConnected \in BOOLEAN
    /\ lastMessageId \in Nat /\ serverMessages \in Nat
    /\ pollInterval \in {"null", "timer"}
    /\ lastOp \in Operations

\* ---------------------------------------------------------------- claims
\* The state construction and resetNetworkStats() produce.
ZeroStats(sent, delivered, dropped, window, chart) ==
    /\ sent = 0
    /\ delivered = 0
    /\ dropped = 0
    /\ window = InitialWindowSize
    /\ chart = EmptyChart

\* C1: counter conservation. In every state between handlers the delivered
\* and dropped totals add up to the sent total.
C1_CounterConservation ==
    deliveredPackets + droppedPackets = sentPackets

\* A tick has dropped packets, and one of them by the rounded-below floor.
C1_Witness ==
    /\ lastOp = "simulateNetworkTraffic"
    /\ droppedPackets > 0
    /\ deliveredPackets = 0

\* C2: window bounds. Under TCP the window stays within 1..packetRate in
\* every state, also across slider changes.
C2_WindowBounds ==
    currentProtocol = "tcp" =>
        /\ 1 <= tcpWindowSize
        /\ tcpWindowSize <= packetRate

\* C3: interval throughput is a first difference. The sample pushed by a tick
\* that has a previous sample equals the growth of deliveredPackets in it.
C3_ThroughputFirstDifference ==
    [][(lastOp' = "simulateNetworkTraffic" /\ Len(chartData.throughput) > 0)
         => chartData'.throughput[Len(chartData'.throughput)]
              = deliveredPackets' - deliveredPackets]_vars

\* C4: start from Paused or Idle changes only the flag and the tick source and
\* leaves the counters, the window and the samples as they were.
C4_StartPreservesStats ==
    [][(lastOp' = "startSimulation" /\ ~isSimulationRunning)
         => UNCHANGED statsVars]_vars

\* C5: single tick source. At most one interval timer is scheduled, and one is
\* scheduled exactly when the simulation is running.
C5_SingleTickSource ==
    /\ Cardinality(activeIntervals) <= 1
    /\ (activeIntervals # {}) <=> isSimulationRunning

\* start() was called on a running simulation that had already ticked.
C5_Witness ==
    /\ lastOp = "startSimulation"
    /\ isSimulationRunning
    /\ clock > 0
    /\ sentPackets > 0
    /\ Cardinality(activeIntervals) = 1

\* C6: start() on a running simulation changes nothing: counters, window,
\* samples, configuration, running flag and timers stay as they were.
C6_StartWhileRunningNoOp ==
    [][(lastOp' = "startSimulation" /\ isSimulationRunning)
         => UNCHANGED <<configVars, statsVars, isSimulationRunning,
                        timerVars, clock>>]_vars

\* start() was called on a running simulation holding two samples or more.
C6_Witness ==
    /\ lastOp = "startSimulation"
    /\ isSimulationRunning
    /\ Len(chartData.time) >= 2
    /\ tcpWindowSize > 1

\* C7: reset purity. reset() leaves the construction-time statistics with the
\* simulation idle, and a second reset() changes nothing.
C7_ResetPurity ==
    [][lastOp' = "resetSimulation"
         => /\ ZeroStats(sentPackets', deliveredPackets', droppedPackets',
                         tcpWindowSize', chartData')
            /\ ~isSimulationRunning'
            /\ activeIntervals' = {}
            /\ (lastOp = "resetSimulation"
                  => UNCHANGED <<configVars, statsVars, isSimulationRunning,
                                 timerVars, clock>>)]_vars

\* reset() has run after the simulation had ticked.
C7_Witness ==
    /\ lastOp = "resetSimulation"
    /\ clock >= 2
    /\ sentPackets = 0
    /\ tcpWindowSize = 1

\* C8: buffer capacity. The three sample arrays never hold more than 8 entries.
C8_BufferCapacity ==
    /\ Len(chartData.time) <= ChartCapacity
    /\ Len(chartData.throughput) <= ChartCapacity
    /\ Len(chartData.loss) <= ChartCapacity

\* Nine ticks of one run have pushed into the buffer, which is full.
C8_Witness ==
    /\ nextTimerId = 2
    /\ clock = ChartCapacity + 1
    /\ Len(chartData.time) = ChartCapacity

\* C9: FIFO eviction. The buffer holds the samples of the last Len ticks in
\* tick order, and a tick appends its sample at the end, evicts from the
\* front only when that exceeds 8 entries, and keeps the rest in order.
C9_BufferFifo ==
    [][LET n == Len(chartData.time)
           m == Len(chartData'.time)
       IN  /\ Len(chartData'.throughput) = m
           /\ Len(chartData'.loss) = m
           /\ \A i \in 1..m : chartData'.time[i] = clock' - m + i
           /\ lastOp' = "simulateNetworkTraffic" =>
                /\ m = Min(n + 1, ChartCapacity)
                /\ chartData'.loss[m] = droppedPackets'
                /\ \A i \in 1..(m - 1) :
                     /\ chartData'.time[i] = chartData.time[i + n + 1 - m]
                     /\ chartData'.throughput[i]
                          = chartData.throughput[i + n + 1 - m]
                     /\ chartData'.loss[i] = chartData.loss[i + n + 1 - m]]_vars

\* After nine ticks of one run the buffer holds the samples of ticks 2..9.
C9_Witness ==
    /\ nextTimerId = 2
    /\ lastOp = "simulateNetworkTraffic"
    /\ chartData.time = <<2, 3, 4, 5, 6, 7, 8, 9>>

\* C10: a protocol change on a running simulation resets it: counters zero,
\* window 1, no samples, not running, and the protocol is the one chosen.
C10_ProtocolChangeResets ==
    [][\A p \in Protocols :
         (lastOp' = SetProtocolOp(p) /\ isSimulationRunning)
           => /\ ZeroStats(sentPackets', deliveredPackets', droppedPackets',
                           tcpWindowSize', chartData')
              /\ ~isSimulationRunning'
              /\ activeIntervals' = {}
              /\ currentProtocol' = p]_vars

\* The protocol was switched to UDP on a running simulation that had ticked.
C10_Witness ==
    /\ lastOp = "setProtocol(udp)"
    /\ currentProtocol = "udp"
    /\ clock >= 2
    /\ nextTimerId = 2
    /\ ~isSimulationRunning
    /\ sentPackets = 0

\* C11: no tick while Paused or Idle. From a state that is not running no
\* step is a tick, and until start() or reset() runs no step changes the
\* counters, the window or the samples.
C11_NoTickUnlessRunning ==
    [][~isSimulationRunning
         => /\ lastOp' # "simulateNetworkTraffic"
            /\ clock' = clock
            /\ lastOp' \notin {"startSimulation", "resetSimulation"}
                 => UNCHANGED statsVars]_vars

\* The simulation was paused after one tick, with timer periods left.
C11_Witness ==
    /\ lastOp = "pauseSimulation"
    /\ ~isSimulationRunning
    /\ clock = 1
    /\ sentPackets > 0

\* C12: pause() clears the running flag and the tick source and leaves the
\* counters, the window, the samples and the configuration as they were.
C12_PausePreservesState ==
    [][lastOp' = "pauseSimulation"
         => /\ ~isSimulationRunning'
            /\ activeIntervals' = {}
            /\ UNCHANGED <<configVars, statsVars>>]_vars

\* pause() has run on a simulation holding two samples and a grown window.
C12_Witness ==
    /\ lastOp = "pauseSimulation"
    /\ ~isSimulationRunning
    /\ activeIntervals = {}
    /\ Len(chartData.time) >= 2
    /\ tcpWindowSize >= 2

\* C13: start() fires no tick itself: the step counts no packet as sent,
\* pushes no sample and does not advance the timer periods; a start from a
\* state that is not running leaves sentPackets at 0 and the samples empty.
C13_StartFiresNoTick ==
    [][lastOp' = "startSimulation"
         => /\ clock' = clock
            /\ sentPackets' <= sentPackets
            /\ Len(chartData'.time) <= Len(chartData.time)
            /\ ~isSimulationRunning
                 => (sentPackets' = 0 /\ chartData' = EmptyChart)]_vars

\* start() has just run for the second time, after an earlier run had ticked.
C13_Witness ==
    /\ lastOp = "startSimulation"
    /\ isSimulationRunning
    /\ nextTimerId = 3
    /\ clock >= 1
    /\ sentPackets = 0
    /\ chartData = EmptyChart

\* C14: a non-positive packetRate or networkCapacity is rejected and the
\* previous configuration kept, so both stay at 1 or more in every state.
C14_ConfigStaysPositive ==
    /\ packetRate >= 1
    /\ networkCapacity >= 1

\* C15: a tick run with packetRate <= 0 or networkCapacity <= 0 fails and
\* computes nothing: counters, window and samples stay as they were.
C15_TickRejectsBadConfig ==
    [][(lastOp' = "simulateNetworkTraffic"
          /\ (packetRate <= 0 \/ networkCapacity <= 0))
         => UNCHANGED statsVars]_vars

\* C16: with networkCapacity = 0 the classification fails and writes none of
\* Normal, Warning, Congested: the status text stays as it was.
C16_ZeroCapacityNotClassified ==
    [][(lastOp' = "simulateNetworkTraffic" /\ networkCapacity = 0)
         => UNCHANGED networkStatus]_vars

\* C17: classifier thresholds. The status a tick writes is Normal iff
\* 100*packetRate < 60*networkCapacity, Warning iff it is from 60 up to but
\* not 85 hundredths of the capacity, Congested iff 100*packetRate >=
\* 85*networkCapacity; rates 59, 60, 85, 150 on capacity 100 give Normal,
\* Warning, Congested, Congested.
C17_ClassifierThresholds ==
    lastOp = "simulateNetworkTraffic" =>
        /\ networkStatus = "Normal"
             <=> 100 * packetRate < 60 * networkCapacity
        /\ networkStatus = "Warning"
             <=> /\ 60 * networkCapacity <= 100 * packetRate
                 /\ 100 * packetRate < 85 * networkCapacity
        /\ networkStatus = "Congested"
             <=> 100 * packetRate >= 85 * networkCapacity
        /\ networkCapacity = 100 =>
             /\ packetRate = 59 => networkStatus = "Normal"
             /\ packetRate = 60 => networkStatus = "Warning"
             /\ packetRate = 85 => networkStatus = "Congested"
             /\ packetRate = 150 => networkStatus = "Congested"

\* A tick has classified rate 60 on capacity 100, the lower boundary.
C17_Witness ==
    /\ lastOp = "simulateNetworkTraffic"
    /\ packetRate = 60
    /\ networkCapacity = 100
    /\ networkStatus = "Warning"

\* C18: sending rate. A tick adds min(packetRate, tcpWindowSize) to
\* sentPackets under TCP and packetRate under UDP, taken at its start.
C18_SendingRate ==
    [][lastOp' = "simulateNetworkTraffic"
         => sentPackets' - sentPackets
              = IF currentProtocol = "tcp"
                THEN (IF packetRate <= tcpWindowSize THEN packetRate
                                                     ELSE tcpWindowSize)
                ELSE packetRate]_vars

\* Two TCP ticks at rate 10 have sent 1 and then 2 packets.
C18_Witness ==
    /\ lastOp = "simulateNetworkTraffic"
    /\ currentProtocol = "tcp"
    /\ packetRate = 10
    /\ sentPackets = 3
    /\ tcpWindowSize = 3

\* C19: no-overload step. A tick whose sending rate does not exceed the
\* capacity adds the sending rate to deliveredPackets, leaves droppedPackets
\* and, under TCP, sets the window to min(packetRate, tcpWindowSize + 1).
C19_NoOverloadStep ==
    [][LET sendingRate ==
               IF currentProtocol = "tcp"
               THEN (IF packetRate <= tcpWindowSize THEN packetRate
                                                    ELSE tcpWindowSize)
               ELSE packetRate
       IN  (lastOp' = "simulateNetworkTraffic"
              /\ sendingRate <= networkCapacity)
             => /\ deliveredPackets' = deliveredPackets + sendingRate
                /\ droppedPackets' = droppedPackets
                /\ currentProtocol = "tcp"
                     => tcpWindowSize'
                          = IF packetRate <= tcpWindowSize + 1
                            THEN packetRate
                            ELSE tcpWindowSize + 1]_vars

\* A TCP tick without overload has found the window already at packetRate.
C19_Witness ==
    /\ lastOp = "simulateNetworkTraffic"
    /\ currentProtocol = "tcp"
    /\ packetRate = 2
    /\ tcpWindowSize = 2
    /\ sentPackets = 5
    /\ droppedPackets = 0

\* C20: backoff on overload. A TCP tick whose sending rate exceeds the
\* capacity sets the window to max(1, floor(tcpWindowSize * 7 / 10)).
C20_BackoffOnOverload ==
    [][LET sendingRate == IF packetRate <= tcpWindowSize THEN packetRate
                                                         ELSE tcpWindowSize
           exact       == (tcpWindowSize * 7) \div 10
       IN  (lastOp' = "simulateNetworkTraffic"
              /\ currentProtocol = "tcp"
              /\ sendingRate > networkCapacity)
             => tcpWindowSize' = IF exact >= 1 THEN exact ELSE 1]_vars

\* C21: monotonic growth under no overload. In a run with a fixed
\* configuration under TCP, a tick without overload raises a window below
\* packetRate by exactly 1 and leaves a window at packetRate there; as long as
\* no tick of the run has overloaded, the window is min(packetRate, 1 + ticks).
C21_MonotonicGrowth ==
    [][LET sendingRate == IF packetRate <= tcpWindowSize THEN packetRate
                                                         ELSE tcpWindowSize
       IN  (lastOp' = "simulateNetworkTraffic"
              /\ currentProtocol = "tcp"
              /\ tcpWindowSize <= packetRate
              /\ sendingRate <= networkCapacity)
             => /\ tcpWindowSize < packetRate
                     => tcpWindowSize' = tcpWindowSize + 1
                /\ tcpWindowSize = packetRate
                     => tcpWindowSize' = packetRate
                /\ droppedPackets' = 0
                     => tcpWindowSize' = IF packetRate <= 1 + clock'
                                         THEN packetRate
                                         ELSE 1 + clock']_vars

\* A run without overload has grown the window 1, 2, 3 and then kept it at
\* packetRate = 3 for two more ticks.
C21_Witness ==
    /\ lastOp = "simulateNetworkTraffic"
    /\ currentProtocol = "tcp"
    /\ packetRate = 3
    /\ networkCapacity >= 3
    /\ clock = 4
    /\ tcpWindowSize = 3
    /\ droppedPackets = 0

\* C22: TCP congestion scenario. With packetRate 10, networkCapacity 5 and
\* TCP, the first tick delivers 1, drops 0 and sets the window to 2; a tick
\* drops packets exactly when it begins with a window above 5; and the window
\* stays within 1..10 without reaching packetRate.
C22_TcpCongestionScenario ==
    [][(lastOp' = "simulateNetworkTraffic"
          /\ currentProtocol = "tcp"
          /\ packetRate = 10
          /\ networkCapacity = 5)
         => /\ clock = 0 => /\ deliveredPackets' = 1
                            /\ droppedPackets' = 0
                            /\ tcpWindowSize' = 2
            /\ (droppedPackets' > droppedPackets) <=> (tcpWindowSize > 5)
            /\ 1 <= tcpWindowSize'
            /\ tcpWindowSize' <= 10
            /\ tcpWindowSize' < packetRate]_vars

\* The run has overloaded twice (at the sixth and the ninth tick) and backed
\* off to 4 after the second time.
C22_Witness ==
    /\ lastOp = "simulateNetworkTraffic"
    /\ currentProtocol = "tcp"
    /\ packetRate = 10
    /\ networkCapacity = 5
    /\ clock = 9
    /\ droppedPackets = 2
    /\ tcpWindowSize = 4

\* C23: UDP congestion scenario. With packetRate 20, networkCapacity 10 and
\* UDP, after k ticks of a run the totals are 20k sent, 10k delivered and 10k
\* dropped.
C23_UdpCongestionScenario ==
    (currentProtocol = "udp" /\ packetRate = 20 /\ networkCapacity = 10)
        => /\ sentPackets = 20 * clock
           /\ deliveredPackets = 10 * clock
           /\ droppedPackets = 10 * clock

\* Three ticks of the UDP run.
C23_Witness ==
    /\ lastOp = "simulateNetworkTraffic"
    /\ currentProtocol = "udp"
    /\ packetRate = 20
    /\ networkCapacity = 10
    /\ clock = 3
    /\ sentPackets = 60
    /\ droppedPackets = 30

\* C24: under UDP a tick leaves the window as it is, with or without
\* overload.
C24_UdpKeepsWindow ==
    [][(lastOp' = "simulateNetworkTraffic" /\ currentProtocol = "udp")
         => tcpWindowSize' = tcpWindowSize]_vars

\* Two UDP ticks have overloaded the link; the window is still the initial one.
C24_Witness ==
    /\ lastOp = "simulateNetworkTraffic"
    /\ currentProtocol = "udp"
    /\ clock = 2
    /\ packetRate > networkCapacity
    /\ droppedPackets > 0
    /\ tcpWindowSize = InitialWindowSize

\* C25: counters are monotone and unsigned. The three totals are never
\* negative, and a step that lowers one of them is a reset (the Reset button,
\* or the reset a protocol change performs on a running simulation).
C25_CountersMonotone ==
    [][/\ sentPackets' >= 0
       /\ deliveredPackets' >= 0
       /\ droppedPackets' >= 0
       /\ (\/ sentPackets' < sentPackets
           \/ deliveredPackets' < deliveredPackets
           \/ droppedPackets' < droppedPackets)
            => lastOp' \in {"resetSimulation", "setProtocol(tcp)",
                            "setProtocol(udp)"}]_vars

\* C26: a slider change while the simulation runs does not reset or stop it.
\* The change leaves the counters, the window, the samples, the running flag
\* and the scheduled timer, and the tick that follows it sends at the rate the
\* new packetRate gives and drops exactly when that exceeds the new capacity.
C26_SliderChangeWhileRunning ==
    [][/\ (lastOp' \in {"setPacketRate", "setNetworkCapacity"}
             /\ isSimulationRunning)
            => /\ sentPackets' = sentPackets
               /\ deliveredPackets' = deliveredPackets
               /\ droppedPackets' = droppedPackets
               /\ tcpWindowSize' = tcpWindowSize
               /\ chartData' = chartData
               /\ isSimulationRunning'
               /\ simulationInterval' \in activeIntervals'
       /\ (lastOp \in {"setPacketRate", "setNetworkCapacity"}
             /\ lastOp' = "simulateNetworkTraffic")
            => LET sendingRate ==
                       IF currentProtocol = "tcp"
                       THEN (IF packetRate <= tcpWindowSize THEN packetRate
                                                            ELSE tcpWindowSize)
                       ELSE packetRate
               IN  /\ sentPackets' = sentPackets + sendingRate
                   /\ (droppedPackets' > droppedPackets)
                        <=> (sendingRate > networkCapacity)]_vars

\* The rate slider was moved while the simulation ran with samples in the
\* chart and a grown window.
C26_Witness ==
    /\ lastOp = "setPacketRate"
    /\ isSimulationRunning
    /\ packetRate = 1
    /\ sentPackets = 3
    /\ tcpWindowSize = 2
    /\ Len(chartData.time) = 2

\* C28: the traffic animation is decoupled from the simulation. startTraffic,
\* increaseTraffic, resetTraffic, stopTraffic, generateTraffic and the car
\* timeouts leave packetRate, networkCapacity, the protocol, the three
\* counters, the window, the samples and the running flag.
C28_TrafficDecoupled ==
    [][lastOp' \in {"startTraffic", "increaseTraffic", "resetTraffic",
                    "stopTraffic", "generateTraffic", "removeCar",
               "addTargetServer", "removeTargetServer", "handleFileSelection",
               "removeFile", "clearSelection",
               "joinChat", "pollForMessages", "pollResponse", "serverMessage"}
         => /\ packetRate' = packetRate
            /\ networkCapacity' = networkCapacity
            /\ currentProtocol' = currentProtocol
            /\ sentPackets' = sentPackets
            /\ deliveredPackets' = deliveredPackets
            /\ droppedPackets' = droppedPackets
            /\ tcpWindowSize' = tcpWindowSize
            /\ chartData' = chartData
            /\ isSimulationRunning' = isSimulationRunning]_vars

\* resetTraffic() ran after cars were generated, while the simulation was
\* running with a tick behind it.
C28_Witness ==
    /\ lastOp = "resetTraffic"
    /\ isSimulationRunning
    /\ sentPackets > 0
    /\ Len(chartData.time) > 0
    /\ carTimeouts # {}
    /\ cars = {}

\* C29 as stated: the sample pushed into an empty buffer has throughput 0.
C29_FirstSampleZero ==
    [][(lastOp' = "simulateNetworkTraffic" /\ Len(chartData.throughput) = 0)
         => chartData'.throughput = <<0>>]_vars

\* C29, amended: the sample pushed into an empty buffer has as throughput the
\* number of packets the tick delivered, which is deliveredPackets after it.
C29_FirstSampleIsDelivered ==
    [][(lastOp' = "simulateNetworkTraffic" /\ Len(chartData.throughput) = 0)
         => /\ chartData'.throughput = <<deliveredPackets'>>
            /\ deliveredPackets = 0]_vars

\* The first tick of a TCP run: one packet delivered, first sample 1.
C29_Witness ==
    /\ lastOp = "simulateNetworkTraffic"
    /\ clock = 1
    /\ deliveredPackets = 1
    /\ chartData.throughput = <<1>>

\* C30: per-tick delivery is the capacity cut-off. A tick adds
\* min(sendingRate, networkCapacity) to deliveredPackets and
\* max(0, sendingRate - networkCapacity) to droppedPackets, hence at least one
\* packet and at most networkCapacity.
C30_CapacityCutOff ==
    [][LET sendingRate ==
               IF currentProtocol = "tcp"
               THEN (IF packetRate <= tcpWindowSize THEN packetRate
                                                    ELSE tcpWindowSize)
               ELSE packetRate
       IN  lastOp' = "simulateNetworkTraffic"
             => /\ deliveredPackets' - deliveredPackets
                     = (IF sendingRate <= networkCapacity
                        THEN sendingRate ELSE networkCapacity)
                /\ droppedPackets' - droppedPackets
                     = (IF sendingRate > networkCapacity
                        THEN sendingRate - networkCapacity ELSE 0)
                /\ deliveredPackets' - deliveredPackets >= 1
                /\ deliveredPackets' - deliveredPackets <= networkCapacity]_vars

\* C31: with a configuration fixed since start and TCP, the window never
\* exceeds networkCapacity + 1, and no tick drops more than one packet.
C31_WindowWithinCapacityPlusOne ==
    [][(lastOp' = "simulateNetworkTraffic" /\ currentProtocol = "tcp")
         => /\ tcpWindowSize <= networkCapacity + 1
            /\ tcpWindowSize' <= networkCapacity + 1
            /\ droppedPackets' - droppedPackets <= 1]_vars

\* A TCP run has dropped one packet at a window of capacity + 1 and grown
\* back to that window.
C31_Witness ==
    /\ lastOp = "simulateNetworkTraffic"
    /\ currentProtocol = "tcp"
    /\ packetRate = 10
    /\ networkCapacity = 5
    /\ tcpWindowSize = 6
    /\ droppedPackets = 1

\* C32: liveness, uncongested TCP. In a run with networkCapacity >= packetRate
\* under TCP whose timer keeps firing, the window eventually equals
\* packetRate and stays there, and droppedPackets is 0 throughout.
C32_UncongestedSettles ==
    (currentProtocol = "tcp" /\ networkCapacity >= packetRate)
        => /\ <>[](tcpWindowSize = packetRate)
           /\ [](droppedPackets = 0)

\* The window has reached packetRate = 5 and stayed there for four ticks.
C32_Witness ==
    /\ lastOp = "simulateNetworkTraffic"
    /\ currentProtocol = "tcp"
    /\ packetRate = 5
    /\ networkCapacity >= 5
    /\ tcpWindowSize = 5
    /\ clock = 8
    /\ droppedPackets = 0

\* The newest sample shows that the last tick dropped packets.
LastTickDropped ==
    LET n == Len(chartData.loss)
    IN  /\ lastOp = "simulateNetworkTraffic"
        /\ n > 0
        /\ chartData.loss[n] > (IF n = 1 THEN 0 ELSE chartData.loss[n - 1])

\* The newest sample shows that the last tick dropped nothing.
LastTickClean ==
    LET n == Len(chartData.loss)
    IN  /\ lastOp = "simulateNetworkTraffic"
        /\ n > 0
        /\ chartData.loss[n] = (IF n = 1 THEN 0 ELSE chartData.loss[n - 1])

\* C33: liveness, congested TCP. In a run with networkCapacity < packetRate
\* under TCP whose timer keeps firing, every tick changes the window, a tick
\* that follows an overload tick does not overload, and from every moment of
\* the run that has networkCapacity + 1 ticks ahead of it a later overload
\* tick and a later tick without overload follow.
C33_CongestedOscillates ==
    /\ [][(lastOp' = "simulateNetworkTraffic"
             /\ currentProtocol = "tcp"
             /\ networkCapacity < packetRate)
            => /\ tcpWindowSize' # tcpWindowSize
               /\ LastTickDropped => droppedPackets' = droppedPackets]_vars
    /\ \A k \in 0..MaxFixedClock :
          [](  (/\ currentProtocol = "tcp"
                /\ networkCapacity < packetRate
                /\ clock = k
                /\ k + networkCapacity + 1 <= MaxFixedClock)
             => /\ <>(LastTickDropped /\ clock > k)
                /\ <>(LastTickClean /\ clock > k))

\* The run with capacity 3 has overloaded for the second time, at its
\* seventh tick.
C33_Witness ==
    /\ LastTickDropped
    /\ currentProtocol = "tcp"
    /\ packetRate > networkCapacity
    /\ networkCapacity = 3
    /\ clock = 7
    /\ droppedPackets = 2

\* C35: drops imply Congested. A tick that drops a packet leaves the status
\* its refresh computes at Congested.
C35_DropsImplyCongested ==
    [][(lastOp' = "simulateNetworkTraffic"
          /\ droppedPackets' > droppedPackets)
         => networkStatus' = "Congested"]_vars

\* A TCP tick has dropped a packet on a link one below packetRate.
C35_Witness ==
    /\ lastOp = "simulateNetworkTraffic"
    /\ currentProtocol = "tcp"
    /\ packetRate = networkCapacity + 1
    /\ droppedPackets = 1
    /\ networkStatus = "Congested"

\* C34: no protocol mixing in a run. Whenever the timer is scheduled, so that
\* a tick can execute, every packet in the counters and every sample in the
\* chart was produced by a tick under the protocol that is current.
C34_NoProtocolMixing ==
    activeIntervals # {} => countedProtocols \subseteq {currentProtocol}

\* A UDP run has ticked once, after a TCP run of two ticks whose statistics
\* are gone.
C34_Witness ==
    /\ lastOp = "simulateNetworkTraffic"
    /\ currentProtocol = "udp"
    /\ countedProtocols = {"udp"}
    /\ clock = 3
    /\ sentPackets = packetRate
    /\ Len(chartData.time) = 1

\* C36: the loss series is cumulative. In every state the loss values of the
\* chart do not decrease from oldest to newest, and the newest one, if there
\* is one, equals droppedPackets.
C36_LossSeriesCumulative ==
    LET n == Len(chartData.loss)
    IN  /\ \A i \in 1..(n - 1) : chartData.loss[i] <= chartData.loss[i + 1]
        /\ n > 0 => chartData.loss[n] = droppedPackets

\* The chart is full, has evicted its first sample and shows a growing loss.
C36_Witness ==
    /\ Len(chartData.loss) = ChartCapacity
    /\ chartData.time[1] = 2
    /\ chartData.loss[1] < chartData.loss[ChartCapacity]
    /\ chartData.loss[ChartCapacity] = droppedPackets

\* C37: navigating away stops the simulation. showSlide(n) for a slide other
\* than 2 and 3 leaves the simulation not running with its timer cleared, and
\* no tick is the step that follows it.
C37_NavigationStopsSimulation ==
    [][/\ (lastOp' = "showSlide" /\ currentSlide' \notin {2, 3})
            => /\ ~isSimulationRunning'
               /\ simulationInterval' \notin activeIntervals'
       /\ (lastOp = "showSlide" /\ currentSlide \notin {2, 3})
            => lastOp' # "simulateNetworkTraffic"]_vars

\* C38: activePackets is never negative and equals the number of cars in the
\* lanes, under every interleaving of generateTraffic, resetTraffic,
\* startTraffic and the car timeouts.
C38_ActivePacketsCountsCars ==
    /\ activePackets >= 0
    /\ activePackets = Cardinality(cars)

\* A car timeout has fired after resetTraffic() had cleared the lanes and new
\* cars were generated: three cars are in the lanes, older timeouts pending.
C38_Witness ==
    /\ lastOp = "removeCar"
    /\ activePackets = 3
    /\ Cardinality(carTimeouts) > 3

C40_NoDuplicateMessages ==
    [][/\ lastMessageId' >= lastMessageId
       /\ \A i, j \in 1..Len(chatMessages') :
             chatMessages'[i] = chatMessages'[j] => i = j]_vars

====
